---- MODULE Spec2Model ----
(***************************************************************************)
(* Model of scs.py, a simple content-addressed store: class Scs (store,    *)
(* load, check, gc) over the FileStorage backend.                          *)
(*                                                                         *)
(* Python 2 strings are byte strings; here a byte string is a sequence of  *)
(* one-character strings, so that slicing, concatenation, len() and the    *)
(* regular expressions of the source can be computed as the code does.     *)
(***************************************************************************)
EXTENDS Integers, Sequences, FiniteSets, TLC

(***************************************************************************)
(* Bounds of the model.                                                    *)
(***************************************************************************)
\* longest input stream handed to store
MaxLen == 3
\* largest blocksize an Scs instance is constructed with
MaxBlockSize == 2
\* number of store calls in one behaviour
MaxStores == 2
\* number of store calls in one behaviour when a call may be cut short
MaxRuns == 1
\* number of files written by hand in one behaviour
MaxHand == 3

(***************************************************************************)
(* Characters and byte strings.                                            *)
(***************************************************************************)
HexDigits == <<"0","1","2","3","4","5","6","7","8","9","a","b","c","d","e","f">>

HexChars == {HexDigits[i] : i \in 1..16}

\* every byte value that occurs in the model, in a fixed order (ord())
Alphabet == <<"\n">> \o HexDigits

Ord(c) == CHOOSE i \in 1..Len(Alphabet) : Alphabet[i] = c

\* s[i:j] of Python for 0 <= i, clipped at len(s)
Slice(s, i, j) ==
    LET hi == IF j < Len(s) THEN j ELSE Len(s)
    IN  IF i >= hi THEN <<>> ELSE SubSeq(s, i + 1, hi)

(***************************************************************************)
(* hashlib.  A hash object is its running state; update() folds the bytes  *)
(* in one by one and hexdigest() prints the state as lowercase hex of      *)
(* fixed width.  The fold is a polynomial over the byte values modulo      *)
(* 16^hexlen: one-to-one on the byte strings of at most 5 bytes (the       *)
(* collision-freedom the store assumes), with collisions beyond, as for    *)
(* any fixed-width digest.  sha1 has 20 bytes of digest; the model's       *)
(* algorithm has DigestSize.                                               *)
(***************************************************************************)
DigestSize == 3

hexlen == 2 * DigestSize

RECURSIVE Pow(_, _)
Pow(b, n) == IF n = 0 THEN 1 ELSE b * Pow(b, n - 1)

HashModulus == Pow(16, hexlen)

HashBase == Len(Alphabet) + 1

\* hashlib.new(algorithm)
HashNew == 0

RECURSIVE HashUpdate(_, _)
HashUpdate(h, data) ==
    IF data = <<>> THEN h
    ELSE HashUpdate((h * HashBase + Ord(Head(data))) % HashModulus, Tail(data))

RECURSIVE Hex(_, _)
Hex(n, width) ==
    IF width = 0 THEN <<>>
    ELSE Append(Hex(n \div 16, width - 1), HexDigits[(n % 16) + 1])

HexDigest(h) == Hex(h, hexlen)

\* hashlib.new(algorithm, data).hexdigest()
\* Digest hashing the first byte only
Digest_FirstByte(data) == HexDigest(HashUpdate(HashNew, Slice(data, 0, 1)))

Digest(data) == HexDigest(HashUpdate(HashNew, data))

(***************************************************************************)
(* File names and the regular expressions of the source.  Python's $       *)
(* matches at the end of the string and also just before one trailing      *)
(* newline.                                                                *)
(***************************************************************************)
BIN == <<".", "b", "i", "n">>

CAT == <<".", "c", "a", "t">>

TMP == <<".", "t", "m", "p">>

NL == <<"\n">>

LowerChars ==
    {"a","b","c","d","e","f","g","h","i","j","k","l","m",
     "n","o","p","q","r","s","t","u","v","w","x","y","z"}

DigitChars == {"0","1","2","3","4","5","6","7","8","9"}

\* the string a pattern ending in $ has to match in full
BeforeDollar(s) ==
    IF Len(s) > 0 /\ s[Len(s)] = "\n" THEN SubSeq(s, 1, Len(s) - 1) ELSE s

AllIn(s, chars) == \A i \in 1..Len(s) : s[i] \in chars

\* re.match('^[0-9a-f]+$', s)
MatchHex(s) ==
    LET t == BeforeDollar(s) IN Len(t) > 0 /\ AllIn(t, HexChars)

\* re.match('^[0-9a-z.-]+$', filename)
MatchPath(filename) ==
    LET t == BeforeDollar(filename)
    IN  Len(t) > 0 /\ AllIn(t, DigitChars \cup LowerChars \cup {".", "-"})

\* re.match('^[0-9a-f]+\.(bin|cat)$', filename)
MatchData(filename) ==
    LET t == BeforeDollar(filename)
    IN  /\ Len(t) > 4
        /\ AllIn(SubSeq(t, 1, Len(t) - 4), HexChars)
        /\ SubSeq(t, Len(t) - 3, Len(t)) \in {BIN, CAT}

\* re.match('^[0-9a-f]{8}-[0-9a-f]{4}-[0-9a-f]{4}-[0-9a-f]{4}-[0-9a-f]{12}\.tmp$', filename)
MatchTmp(filename) ==
    LET t == BeforeDollar(filename)
    IN  /\ Len(t) = 40
        /\ \A i \in 1..36 : IF i \in {9, 14, 19, 24} THEN t[i] = "-" ELSE t[i] \in HexChars
        /\ SubSeq(t, 37, 40) = TMP

\* len(filename) == self.hexlen + len('.???') and re.match(...)
IsDataFile(filename) == Len(filename) = hexlen + 4 /\ MatchData(filename)

\* str(uuid.uuid4()) of the n-th draw: random, hence unlike every other draw
Uuid4(n) ==
    Hex(n, 8) \o <<"-">> \o Hex(0, 4) \o <<"-", "4">> \o Hex(0, 3)
        \o <<"-", "8">> \o Hex(0, 3) \o <<"-">> \o Hex(n, 12)

(***************************************************************************)
(* FileStorage: the folder as a function from file name to content.        *)
(***************************************************************************)
\* FileStorage.filenames
filenames(stor) == DOMAIN stor

\* FileStorage.exists
exists(stor, filename) == filename \in DOMAIN stor

\* FileStorage.read
read(stor, filename) == stor[filename]

\* FileStorage.create: overwrites
create(stor, filename, data) ==
    [f \in DOMAIN stor \cup {filename} |-> IF f = filename THEN data ELSE stor[f]]

\* FileStorage.rename: overwrites
rename(stor, old_filename, new_filename) ==
    [f \in (DOMAIN stor \ {old_filename}) \cup {new_filename} |->
        IF f = new_filename THEN stor[old_filename] ELSE stor[f]]

\* FileStorage.remove
remove(stor, filename) == [f \in DOMAIN stor \ {filename} |-> stor[f]]

EmptyStorage == [f \in {} |-> <<>>]

(***************************************************************************)
(* Scs.store as a machine: one step per backend call or input read.  A     *)
(* record holds the locals of one call; created and skipped note the       *)
(* final names the call renamed into place / found present, replaced the   *)
(* final names that were present when the call renamed onto them.          *)
(***************************************************************************)
NoName == <<>>

StoreIdle ==
    [pc |-> "idle", blocksize |-> 0, input_io |-> <<>>, data |-> <<>>,
     block |-> <<>>, cat |-> <<>>, hash_total |-> HashNew,
     filename |-> NoName, filename_tmp |-> NoName, hexdigest_total |-> NoName,
     created |-> {}, skipped |-> {}, staged |-> {}, reads |-> <<>>, replaced |-> {}]

\* store(input_io) is entered: lines 202-203
StoreEnter(bs, data) ==
    [StoreIdle EXCEPT !.pc = "read", !.blocksize = bs, !.input_io = data, !.data = data]

\* TmpName writing in place, under the final name
TmpName_InPlace(final, n) == final

\* TmpName with one name for every temporary object
TmpName_Fixed(final, n) == Uuid4(0) \o TMP

\* the name of the temporary object of the n-th uuid draw: lines 216, 227
TmpName(final, n) == Uuid4(n) \o TMP

\* StoreRead with the one-block test of line 221 off by the newline
StoreRead_SingleBlockTest(s) ==
    LET block == Slice(s.input_io, 0, s.blocksize)
        rest == Slice(s.input_io, s.blocksize, Len(s.input_io))
        r == [s EXCEPT !.block = block, !.input_io = rest,
                       !.reads = Append(s.reads, Len(block))]
    IN  IF Len(block) = 0
        THEN LET hexdigest_total == HexDigest(s.hash_total)
                 t == [r EXCEPT !.hexdigest_total = hexdigest_total,
                                !.filename = hexdigest_total \o CAT]
             IN  IF Len(s.cat) = hexlen
                 THEN [t EXCEPT !.pc = "returned"]
                 ELSE [t EXCEPT !.pc = "exists_total"]
        ELSE LET hexdigest == Digest(block)
             IN  [r EXCEPT !.cat = s.cat \o hexdigest \o NL,
                           !.hash_total = HashUpdate(s.hash_total, block),
                           !.filename = hexdigest \o BIN,
                           !.pc = "exists"]

\* StoreRead with line 209 putting the new record in front
StoreRead_Prepend(s) ==
    LET block == Slice(s.input_io, 0, s.blocksize)
        rest == Slice(s.input_io, s.blocksize, Len(s.input_io))
        r == [s EXCEPT !.block = block, !.input_io = rest,
                       !.reads = Append(s.reads, Len(block))]
    IN  IF Len(block) = 0
        THEN LET hexdigest_total == HexDigest(s.hash_total)
                 t == [r EXCEPT !.hexdigest_total = hexdigest_total,
                                !.filename = hexdigest_total \o CAT]
             IN  IF Len(s.cat) = hexlen + 1
                 THEN [t EXCEPT !.pc = "returned"]
                 ELSE [t EXCEPT !.pc = "exists_total"]
        ELSE LET hexdigest == Digest(block)
             IN  [r EXCEPT !.cat = hexdigest \o NL \o s.cat,
                           !.hash_total = HashUpdate(s.hash_total, block),
                           !.filename = hexdigest \o BIN,
                           !.pc = "exists"]

\* StoreRead leaving the loop at a short read as at an empty one
StoreRead_BreakOnShort(s) ==
    LET block == Slice(s.input_io, 0, s.blocksize)
        rest == Slice(s.input_io, s.blocksize, Len(s.input_io))
        r == [s EXCEPT !.block = block, !.input_io = rest,
                       !.reads = Append(s.reads, Len(block))]
    IN  IF Len(block) < s.blocksize
        THEN LET hexdigest_total == HexDigest(s.hash_total)
                 t == [r EXCEPT !.hexdigest_total = hexdigest_total,
                                !.filename = hexdigest_total \o CAT]
             IN  IF Len(s.cat) = hexlen + 1
                 THEN [t EXCEPT !.pc = "returned"]
                 ELSE [t EXCEPT !.pc = "exists_total"]
        ELSE LET hexdigest == Digest(block)
             IN  [r EXCEPT !.cat = s.cat \o hexdigest \o NL,
                           !.hash_total = HashUpdate(s.hash_total, block),
                           !.filename = hexdigest \o BIN,
                           !.pc = "exists"]

\* lines 205-211, and 219-222 once the input is exhausted
StoreRead(s) ==
    LET block == Slice(s.input_io, 0, s.blocksize)
        rest == Slice(s.input_io, s.blocksize, Len(s.input_io))
        r == [s EXCEPT !.block = block, !.input_io = rest,
                       !.reads = Append(s.reads, Len(block))]
    IN  IF Len(block) = 0
        THEN LET hexdigest_total == HexDigest(s.hash_total)
                 t == [r EXCEPT !.hexdigest_total = hexdigest_total,
                                !.filename = hexdigest_total \o CAT]
             IN  IF Len(s.cat) = hexlen + 1
                 THEN [t EXCEPT !.pc = "returned"]
                 ELSE [t EXCEPT !.pc = "exists_total"]
        ELSE LET hexdigest == Digest(block)
             IN  [r EXCEPT !.cat = s.cat \o hexdigest \o NL,
                           !.hash_total = HashUpdate(s.hash_total, block),
                           !.filename = hexdigest \o BIN,
                           !.pc = "exists"]

\* StoreExists taking every object for absent
StoreExists_Absent(s, stor, n) ==
    [s |-> [s EXCEPT !.pc = IF s.pc = "exists" THEN "create" ELSE "create_total",
                     !.filename_tmp = TmpName(s.filename, n + 1)],
     n |-> n + 1]

\* StoreExists taking every block for present
StoreExists_Present(s, stor, n) ==
    IF s.pc = "exists" \/ exists(stor, s.filename)
    THEN [s |-> [s EXCEPT !.pc = IF s.pc = "exists" THEN "read" ELSE "returned",
                          !.skipped = s.skipped \cup {s.filename}],
          n |-> n]
    ELSE [s |-> [s EXCEPT !.pc = "create_total",
                          !.filename_tmp = TmpName(s.filename, n + 1)],
          n |-> n + 1]

\* lines 212-216 and 223-227: the existence check and, when absent, the uuid draw
StoreExists(s, stor, n) ==
    IF exists(stor, s.filename)
    THEN [s |-> [s EXCEPT !.pc = IF s.pc = "exists" THEN "read" ELSE "returned",
                          !.skipped = s.skipped \cup {s.filename}],
          n |-> n]
    ELSE [s |-> [s EXCEPT !.pc = IF s.pc = "exists" THEN "create" ELSE "create_total",
                          !.filename_tmp = TmpName(s.filename, n + 1)],
          n |-> n + 1]

\* what lines 217 and 228 write
StoreContent(s) == IF s.pc = "create" THEN s.block ELSE s.cat

\* lines 217 and 228
StoreCreate(s, stor) ==
    [s |-> [s EXCEPT !.pc = IF s.pc = "create" THEN "rename" ELSE "rename_total",
                     !.staged = s.staged \cup {s.filename_tmp}],
     stor |-> create(stor, s.filename_tmp, StoreContent(s))]

\* StoreRename writing the object again when its temporary object is gone
StoreRename_Recreate(s, stor) ==
    [s |-> [s EXCEPT !.pc = IF s.pc = "rename" THEN "read" ELSE "returned",
                     !.created = s.created \cup {s.filename}],
     stor |-> create(remove(stor, s.filename_tmp), s.filename,
                     IF s.pc = "rename" THEN s.block ELSE s.cat)]

\* lines 218 and 229; os.rename raises OSError when the source is gone
StoreRename(s, stor) ==
    IF ~exists(stor, s.filename_tmp)
    THEN [s |-> [s EXCEPT !.pc = "failed"], stor |-> stor]
    ELSE [s |-> [s EXCEPT !.pc = IF s.pc = "rename" THEN "read" ELSE "returned",
                          !.created = s.created \cup {s.filename},
                          !.replaced = IF exists(stor, s.filename)
                                       THEN s.replaced \cup {s.filename} ELSE s.replaced],
          stor |-> rename(stor, s.filename_tmp, s.filename)]

StoreRunning(s) == s.pc \notin {"idle", "returned", "failed", "crashed"}

\* one step of store: the code up to and including its next backend call
StoreStep(s, stor, n) ==
    CASE s.pc = "read" -> [s |-> StoreRead(s), stor |-> stor, n |-> n]
      [] s.pc \in {"exists", "exists_total"} ->
            LET r == StoreExists(s, stor, n) IN [s |-> r.s, stor |-> stor, n |-> r.n]
      [] s.pc \in {"create", "create_total"} ->
            LET r == StoreCreate(s, stor) IN [s |-> r.s, stor |-> r.stor, n |-> n]
      [] s.pc \in {"rename", "rename_total"} ->
            LET r == StoreRename(s, stor) IN [s |-> r.s, stor |-> r.stor, n |-> n]

\* store run from entry to its return, with no other operation in between
RECURSIVE StoreRun(_, _, _)
StoreRun(s, stor, n) ==
    IF ~StoreRunning(s) THEN [s |-> s, stor |-> stor, n |-> n]
    ELSE LET r == StoreStep(s, stor, n) IN StoreRun(r.s, r.stor, r.n)

(***************************************************************************)
(* Scs.load: a generator.  Calling load runs no code; each next() runs     *)
(* the body up to the next yield, to its end (StopIteration, pc            *)
(* "finished") or to a raise (pc "raised", err the exception).             *)
(***************************************************************************)
LoadIdle ==
    [pc |-> "idle", hexdigest |-> NoName, hash_total |-> HashNew,
     hexdigest_list |-> <<>>, i |-> 0, out |-> <<>>, err |-> "none", calls |-> 0]

\* load(hexdigest): the generator object, not yet started
LoadEnter(hexdigest) == [LoadIdle EXCEPT !.pc = "start", !.hexdigest = hexdigest]

LoadRaise(g, err) == [g EXCEPT !.pc = "raised", !.err = err]

\* line 181
ValidDigest(hexdigest) == Len(hexdigest) = hexlen /\ MatchHex(hexdigest)

\* LoadVerify without the comparison
LoadVerify_Skip(g) == [g EXCEPT !.pc = "finished"]

\* LoadVerify comparing only the first character of the digests
LoadVerify_Weak(g) ==
    IF Head(HexDigest(g.hash_total)) # Head(g.hexdigest)
    THEN LoadRaise(g, "Wrong checksum")
    ELSE [g EXCEPT !.pc = "finished"]

\* lines 195-196, then the end of the generator
LoadVerify(g) ==
    IF HexDigest(g.hash_total) # g.hexdigest
    THEN LoadRaise(g, "Wrong checksum")
    ELSE [g EXCEPT !.pc = "finished"]

\* lines 185-186 and 191-192
LoadYield(g, block, pc) ==
    [g EXCEPT !.hash_total = HashUpdate(g.hash_total, block),
              !.out = Append(g.out, block), !.pc = pc]

\* LoadCat stepping over the records without their newline
LoadCat_Stride(g, stor) ==
    IF g.i < Len(g.hexdigest_list)
    THEN LET filename == Slice(g.hexdigest_list, g.i, g.i + hexlen) \o BIN
             c == [g EXCEPT !.calls = g.calls + 1, !.i = g.i + hexlen]
         IN  IF ~MatchPath(filename) THEN LoadRaise(c, "AssertionError")
             ELSE IF ~exists(stor, filename) THEN LoadRaise(c, "IOError")
             ELSE LoadYield(c, read(stor, filename), "cat")
    ELSE LoadVerify(g)

\* LoadCat comparing the digests as soon as the last block is read, before
\* the block is yielded
LoadCat_Eager(g, stor) ==
    IF g.i < Len(g.hexdigest_list)
    THEN LET filename == Slice(g.hexdigest_list, g.i, g.i + hexlen) \o BIN
             c == [g EXCEPT !.calls = g.calls + 1, !.i = g.i + hexlen + 1]
         IN  IF ~MatchPath(filename) THEN LoadRaise(c, "AssertionError")
             ELSE IF ~exists(stor, filename) THEN LoadRaise(c, "IOError")
             ELSE IF /\ c.i >= Len(g.hexdigest_list)
                     /\ HexDigest(HashUpdate(g.hash_total, read(stor, filename))) # g.hexdigest
             THEN LoadRaise(c, "Wrong checksum")
             ELSE LoadYield(c, read(stor, filename), "cat")
    ELSE LoadVerify(g)

\* lines 189-192: the next record of the catalog, or past its end lines 195-196
LoadCat(g, stor) ==
    IF g.i < Len(g.hexdigest_list)
    THEN LET filename == Slice(g.hexdigest_list, g.i, g.i + hexlen) \o BIN
             c == [g EXCEPT !.calls = g.calls + 1, !.i = g.i + hexlen + 1]
         IN  IF ~MatchPath(filename) THEN LoadRaise(c, "AssertionError")
             ELSE IF ~exists(stor, filename) THEN LoadRaise(c, "IOError")
             ELSE LoadYield(c, read(stor, filename), "cat")
    ELSE LoadVerify(g)

\* lines 181-194 and 197-198: the first next()
LoadStart(g, stor) ==
    IF ValidDigest(g.hexdigest)
    THEN IF ~MatchPath(g.hexdigest \o BIN)
         THEN LoadRaise([g EXCEPT !.calls = 1], "AssertionError")
         ELSE IF exists(stor, g.hexdigest \o BIN)
         THEN LoadYield([g EXCEPT !.calls = 2], read(stor, g.hexdigest \o BIN), "bin")
         ELSE IF exists(stor, g.hexdigest \o CAT)
         THEN LoadCat([g EXCEPT !.calls = 3,
                                !.hexdigest_list = read(stor, g.hexdigest \o CAT)], stor)
         ELSE LoadRaise([g EXCEPT !.calls = 2], "Unknown digest")
    ELSE LoadRaise(g, "Invalid digest")

LoadRunning(g) == g.pc \in {"start", "bin", "cat"}

\* one next() on the generator
LoadStep(g, stor) ==
    CASE g.pc = "start" -> LoadStart(g, stor)
      [] g.pc = "bin" -> LoadVerify(g)
      [] g.pc = "cat" -> LoadCat(g, stor)

\* for block in self.load(hexdigest): pass
RECURSIVE LoadDrain(_, _)
LoadDrain(g, stor) ==
    IF ~LoadRunning(g) THEN g ELSE LoadDrain(LoadStep(g, stor), stor)

RECURSIVE Concat(_)
Concat(chunks) == IF chunks = <<>> THEN <<>> ELSE Head(chunks) \o Concat(Tail(chunks))

(***************************************************************************)
(* Scs.check.  filenames is a Python set: the loop visits it in an         *)
(* arbitrary order and ends at the first file that raises.                 *)
(***************************************************************************)
\* CheckFile without the test of line 170
CheckFile_NoRedundancy(stor, names, filename) ==
    IF IsDataFile(filename)
    THEN LoadDrain(LoadEnter(SubSeq(filename, 1, Len(filename) - 4)), stor).err
    ELSE "none"

\* lines 168-177 for one filename: the exception it raises, or "none"
CheckFile(stor, names, filename) ==
    IF IsDataFile(filename)
    THEN LET hexdigest_total == SubSeq(filename, 1, Len(filename) - 4)
         IN  IF /\ Slice(filename, Len(hexdigest_total), Len(filename)) = CAT
                /\ (hexdigest_total \o BIN) \in names
             THEN "Redundant"
             ELSE LoadDrain(LoadEnter(hexdigest_total), stor).err
    ELSE "none"

\* lines 166-177: what check() can end with, over the orders of the loop
CheckOutcomes(stor) ==
    LET names == filenames(stor)
        errs == {CheckFile(stor, names, f) : f \in names} \ {"none"}
    IN  IF errs = {} THEN {"none"} ELSE errs

(***************************************************************************)
(* Scs.gc.                                                                 *)
(***************************************************************************)
GcIdle == [pc |-> "idle", hexdigests |-> "None", todo |-> {}, removed |-> {},
           skipped |-> {}, ignored |-> {}, err |-> "none", before |-> EmptyStorage,
           calls |-> {}]

\* GcEnter refusing every argument but None
GcEnter_Reject(hexdigests, stor) ==
    IF hexdigests = "None"
    THEN [GcIdle EXCEPT !.pc = "loop", !.hexdigests = hexdigests, !.todo = filenames(stor),
                        !.before = stor, !.calls = {<<"filenames">>}]
    ELSE [GcIdle EXCEPT !.pc = "raised", !.err = "NotImplementedError",
                        !.hexdigests = hexdigests, !.before = stor]

\* gc(hexdigests): line 155 takes the set of names; hexdigests is not read.
\* before notes the folder as gc found it, calls the backend calls gc makes
GcEnter(hexdigests, stor) ==
    [GcIdle EXCEPT !.pc = "loop", !.hexdigests = hexdigests, !.todo = filenames(stor),
                   !.before = stor, !.calls = {<<"filenames">>}]

\* GcFile removing what it does not recognise
GcFile_Sweep(g, stor, filename) ==
    LET h == [g EXCEPT !.todo = g.todo \ {filename}]
    IN  IF IsDataFile(filename)
        THEN [g |-> [h EXCEPT !.skipped = g.skipped \cup {filename}], stor |-> stor]
        ELSE IF MatchTmp(filename)
        THEN IF ~MatchPath(filename)
             THEN [g |-> [h EXCEPT !.pc = "raised", !.err = "AssertionError"], stor |-> stor]
             ELSE IF ~exists(stor, filename)
             THEN [g |-> [h EXCEPT !.pc = "raised", !.err = "OSError",
                                   !.calls = g.calls \cup {<<"remove", filename>>}],
                   stor |-> stor]
             ELSE [g |-> [h EXCEPT !.removed = g.removed \cup {filename},
                                   !.calls = g.calls \cup {<<"remove", filename>>}],
                   stor |-> remove(stor, filename)]
        ELSE [g |-> [h EXCEPT !.removed = g.removed \cup {filename},
                              !.calls = g.calls \cup {<<"remove", filename>>}],
              stor |-> remove(stor, filename)]

\* lines 156-162 for one filename
GcFile(g, stor, filename) ==
    LET h == [g EXCEPT !.todo = g.todo \ {filename}]
    IN  IF IsDataFile(filename)
        THEN [g |-> [h EXCEPT !.skipped = g.skipped \cup {filename}], stor |-> stor]
        ELSE IF MatchTmp(filename)
        THEN IF ~MatchPath(filename)
             THEN [g |-> [h EXCEPT !.pc = "raised", !.err = "AssertionError"], stor |-> stor]
             ELSE IF ~exists(stor, filename)
             THEN [g |-> [h EXCEPT !.pc = "raised", !.err = "OSError",
                                   !.calls = g.calls \cup {<<"remove", filename>>}],
                   stor |-> stor]
             ELSE [g |-> [h EXCEPT !.removed = g.removed \cup {filename},
                                   !.calls = g.calls \cup {<<"remove", filename>>}],
                   stor |-> remove(stor, filename)]
        ELSE [g |-> [h EXCEPT !.ignored = g.ignored \cup {filename}], stor |-> stor]

\* line 155: the loop ends when the set is exhausted
GcLoop(g) == IF g.pc = "loop" /\ g.todo = {} THEN [g EXCEPT !.pc = "returned"] ELSE g

\* gc run from entry to its return with no other operation in between; the
\* files are distinct names, so the order of the loop does not show
RECURSIVE GcRun(_, _)
GcRun(g, stor) ==
    IF g.pc # "loop" \/ g.todo = {} THEN [g |-> GcLoop(g), stor |-> stor]
    ELSE LET r == GcFile(g, stor, CHOOSE f \in g.todo : TRUE)
         IN  GcRun(r.g, r.stor)

(***************************************************************************)
(* The state.                                                              *)
(***************************************************************************)
VARIABLES
    storage,    \* the storage folder: file name -> content
    uuids,      \* uuid.uuid4() draws so far
    blocksize,  \* self.blocksize of the Scs instance
    st,         \* per process: the locals of its store call
    ld,         \* the load generator in use
    ck,         \* the last check(): its outcome
    gc,         \* the locals of the gc call
    done,       \* completed store calls: [data, ret]
    entry,      \* per process: storage and done when its store call was entered
    nstores,    \* store calls so far
    tampered    \* names written by hand (FileStorage.create called directly)

vars == <<storage, uuids, blocksize, st, ld, ck, gc, done, entry, nstores, tampered>>

Procs == {1, 2}

\* the bytes of the input streams
DataBytes == {"0", "1"}

RECURSIVE StringsUpTo(_, _)
StringsUpTo(chars, n) ==
    IF n = 0 THEN {<<>>}
    ELSE LET shorter == StringsUpTo(chars, n - 1)
         IN  shorter \cup {Append(t, c) : t \in {u \in shorter : Len(u) = n - 1}, c \in chars}

Inputs == StringsUpTo(DataBytes, MaxLen)

CkIdle == [pc |-> "idle", err |-> "none"]

NoEntry == [storage |-> EmptyStorage, done |-> {}, uuids |-> 0]

Init ==
    /\ storage = EmptyStorage
    /\ uuids = 0
    /\ blocksize \in 1..MaxBlockSize
    /\ st = [p \in Procs |-> StoreIdle]
    /\ ld = LoadIdle
    /\ ck = CkIdle
    /\ gc = GcIdle
    /\ done = {}
    /\ entry = [p \in Procs |-> NoEntry]
    /\ nstores = 0
    /\ tampered = {}

\* no operation is under way
Quiet ==
    /\ \A p \in Procs : ~StoreRunning(st[p])
    /\ gc.pc # "loop"

Completed(s) == [data |-> s.data, ret |-> s.hexdigest_total]

(***************************************************************************)
(* Operations, one after the other.                                        *)
(***************************************************************************)
\* scs.store(io.BytesIO(data)), from its call to its return
Store(p, data) ==
    /\ Quiet
    /\ ld.pc = "idle" /\ ck.pc = "idle" /\ gc.pc = "idle"
    /\ nstores < MaxStores
    /\ LET r == StoreRun(StoreEnter(blocksize, data), storage, uuids)
       IN  /\ st' = [q \in Procs |-> IF q = p THEN r.s ELSE StoreIdle]
           /\ storage' = r.stor
           /\ uuids' = r.n
           /\ done' = IF r.s.pc = "returned" THEN done \cup {Completed(r.s)} ELSE done
    /\ entry' = [entry EXCEPT ![p] = [storage |-> storage, done |-> done, uuids |-> uuids]]
    /\ nstores' = nstores + 1
    /\ UNCHANGED <<blocksize, ld, ck, gc, tampered>>

\* the digests the data files of the folder are named by
DigestsIn(stor) == {SubSeq(f, 1, Len(f) - 4) : f \in {x \in DOMAIN stor : IsDataFile(x)}}

\* ''.join(scs.load(hexdigest)): the generator drained.  load writes nothing,
\* so a behaviour follows one load and what came before it
Load(hexdigest) ==
    /\ Quiet
    /\ ld.pc = "idle" /\ ck.pc = "idle" /\ gc.pc = "idle"
    /\ ld' = LoadDrain(LoadEnter(hexdigest), storage)
    /\ UNCHANGED <<storage, uuids, blocksize, st, ck, gc, done, entry, nstores, tampered>>

(***************************************************************************)
(* store step by step, and cut short.                                      *)
(***************************************************************************)
\* process p enters scs.store(io.BytesIO(data))
StoreCall(p, data) ==
    /\ Quiet
    /\ ld.pc = "idle" /\ ck.pc = "idle" /\ gc.pc = "idle"
    /\ nstores < MaxRuns
    /\ st' = [q \in Procs |-> IF q = p THEN StoreEnter(blocksize, data) ELSE StoreIdle]
    /\ entry' = [entry EXCEPT ![p] = [storage |-> storage, done |-> done, uuids |-> uuids]]
    /\ nstores' = nstores + 1
    /\ UNCHANGED <<storage, uuids, blocksize, ld, ck, gc, done, tampered>>

\* process p runs store up to and including its next backend call
StoreAdvance(p) ==
    /\ StoreRunning(st[p])
    /\ LET r == StoreStep(st[p], storage, uuids)
       IN  /\ st' = [st EXCEPT ![p] = r.s]
           /\ storage' = r.stor
           /\ uuids' = r.n
           /\ done' = IF r.s.pc = "returned" THEN done \cup {Completed(r.s)} ELSE done
    /\ UNCHANGED <<blocksize, ld, ck, gc, entry, nstores, tampered>>

\* the process dies between two backend calls
Crash(p) ==
    /\ StoreRunning(st[p])
    /\ st' = [st EXCEPT ![p].pc = "crashed"]
    /\ UNCHANGED <<storage, uuids, blocksize, ld, ck, gc, done, entry, nstores, tampered>>

\* the process dies inside FileStorage.create (lines 71-72): the file is
\* there, open('wb') made it, with the part of the data written so far
CrashInCreate(p) ==
    /\ st[p].pc \in {"create", "create_total"}
    /\ \E k \in 0..(Len(StoreContent(st[p])) - 1) :
          storage' = create(storage, st[p].filename_tmp, SubSeq(StoreContent(st[p]), 1, k))
    /\ st' = [st EXCEPT ![p].pc = "crashed"]
    /\ UNCHANGED <<uuids, blocksize, ld, ck, gc, done, entry, nstores, tampered>>

(***************************************************************************)
(* Stores side by side: each process is one run of the program over the    *)
(* same folder, with the block size its command line gives.                *)
(***************************************************************************)
\* process p, which has not stored yet, enters store(io.BytesIO(data))
StoreBegin(p, bs, data) ==
    /\ st[p].pc = "idle"
    /\ ld.pc = "idle" /\ ck.pc = "idle"
    /\ st' = [st EXCEPT ![p] = StoreEnter(bs, data)]
    /\ entry' = [entry EXCEPT ![p] = [storage |-> storage, done |-> done, uuids |-> uuids]]
    /\ nstores' = nstores + 1
    /\ UNCHANGED <<storage, uuids, blocksize, ld, ck, gc, done, tampered>>

\* process p, which has not stored yet, runs store(io.BytesIO(data)) from its
\* call to its return while the calls of the other processes are under way
StoreThrough(p, bs, data) ==
    /\ st[p].pc = "idle"
    /\ ld.pc = "idle" /\ ck.pc = "idle"
    /\ LET r == StoreRun(StoreEnter(bs, data), storage, uuids)
       IN  /\ st' = [st EXCEPT ![p] = r.s]
           /\ storage' = r.stor
           /\ uuids' = r.n
           /\ done' = IF r.s.pc = "returned" THEN done \cup {Completed(r.s)} ELSE done
    /\ entry' = [entry EXCEPT ![p] = [storage |-> storage, done |-> done, uuids |-> uuids]]
    /\ nstores' = nstores + 1
    /\ UNCHANGED <<blocksize, ld, ck, gc, tampered>>

(***************************************************************************)
(* The other operations.                                                   *)
(***************************************************************************)
\* storage.create(filename, data) by hand, as the self-test does (lines 327, 333)
HandCreate(filename, data) ==
    /\ Quiet
    /\ ld.pc = "idle" /\ ck.pc = "idle" /\ gc.pc = "idle"
    /\ Cardinality(tampered) < MaxHand
    /\ filename \notin tampered
    /\ MatchPath(filename)
    /\ storage' = create(storage, filename, data)
    /\ tampered' = tampered \cup {filename}
    /\ st' = [p \in Procs |-> StoreIdle]
    /\ entry' = [p \in Procs |-> NoEntry]
    /\ UNCHANGED <<uuids, blocksize, ld, ck, gc, done, nstores>>

\* scs.load(hexdigest): the generator is made, none of its code runs
LoadCall(hexdigest) ==
    /\ Quiet
    /\ ld.pc = "idle" /\ ck.pc = "idle" /\ gc.pc = "idle"
    /\ ld' = LoadEnter(hexdigest)
    /\ UNCHANGED <<storage, uuids, blocksize, st, ck, gc, done, entry, nstores, tampered>>

\* next() on the generator
LoadNext ==
    /\ LoadRunning(ld)
    /\ ld' = LoadStep(ld, storage)
    /\ UNCHANGED <<storage, uuids, blocksize, st, ck, gc, done, entry, nstores, tampered>>

\* scs.check(), from its call to its return or its exception
Check ==
    /\ Quiet
    /\ ~LoadRunning(ld) /\ ck.pc = "idle" /\ gc.pc = "idle"
    /\ \E err \in CheckOutcomes(storage) : ck' = [pc |-> "done", err |-> err]
    /\ UNCHANGED <<storage, uuids, blocksize, st, ld, gc, done, entry, nstores, tampered>>

\* what gc is called with: None, [], a list of one digest
GcArgs == {"None", "[]", "[hexdigest]"}

\* scs.gc(hexdigests), from its call to its return or its exception
Gc(hexdigests) ==
    /\ Quiet
    /\ ld.pc = "idle" /\ ck.pc = "idle" /\ gc.pc = "idle"
    /\ LET r == GcRun(GcEnter(hexdigests, storage), storage)
       IN  gc' = r.g /\ storage' = r.stor
    /\ UNCHANGED <<uuids, blocksize, st, ld, ck, done, entry, nstores, tampered>>

(***************************************************************************)
(* gc step by step, beside other operations.                               *)
(***************************************************************************)
\* scs.gc(hexdigests) is entered and takes the set of names (line 155)
GcCall(hexdigests) ==
    /\ gc.pc = "idle"
    /\ ld.pc = "idle" /\ ck.pc = "idle"
    /\ gc' = GcLoop(GcEnter(hexdigests, storage))
    /\ UNCHANGED <<storage, uuids, blocksize, st, ld, ck, done, entry, nstores, tampered>>

\* one turn of the loop of line 155, over the names in any order
GcStep ==
    /\ gc.pc = "loop"
    /\ \E filename \in gc.todo :
          LET r == GcFile(gc, storage, filename)
          IN  gc' = GcLoop(r.g) /\ storage' = r.stor
    /\ UNCHANGED <<uuids, blocksize, st, ld, ck, done, entry, nstores, tampered>>

Next ==
    \/ \E data \in Inputs : Store(1, data)
    \/ \E hexdigest \in DigestsIn(storage) \cup {r.ret : r \in done} : Load(hexdigest)

Spec == Init /\ [][Next]_vars

NextCrash ==
    \/ \E data \in Inputs : StoreCall(1, data)
    \/ StoreAdvance(1)
    \/ Crash(1)
    \/ CrashInCreate(1)

SpecCrash == Init /\ [][NextCrash]_vars

(***************************************************************************)
(* Stores, then one block overwritten by hand with other bytes (line 333), *)
(* then load or check.  The other bytes are no longer than the block, so   *)
(* that every byte string hashed stays where Digest is one-to-one.         *)
(***************************************************************************)
BlockFiles(stor) == {f \in DOMAIN stor : IsDataFile(f) /\ Slice(f, hexlen, Len(f)) = BIN}

OtherBytes(block) == StringsUpTo(DataBytes, Len(block)) \ {block}

NextTamper ==
    \/ \E data \in Inputs : tampered = {} /\ nstores < MaxRuns /\ Store(1, data)
    \/ \E f \in BlockFiles(storage) : \E data \in OtherBytes(storage[f]) :
          tampered = {} /\ HandCreate(f, data)
    \/ \E hexdigest \in DigestsIn(storage) : tampered # {} /\ Load(hexdigest)
    \/ tampered # {} /\ Check

SpecTamper == Init /\ [][NextTamper]_vars

(***************************************************************************)
(* A folder filled by hand, with blocks and catalogs right and wrong, and  *)
(* loads from it.                                                          *)
(***************************************************************************)
LoadNames ==
    {Digest(<<"0">>) \o BIN, Digest(<<"1">>) \o BIN,
     Digest(<<"0", "1">>) \o BIN, Digest(<<"0", "1">>) \o CAT,
     Digest(<<>>) \o CAT}

LoadData ==
    {<<>>, <<"0">>, <<"1">>,
     Digest(<<"0">>) \o NL \o Digest(<<"1">>) \o NL,
     Digest(<<"1">>) \o NL \o Digest(<<"0">>) \o NL,
     Digest(<<"0">>) \o NL \o Digest(<<"1">>),
     Digest(<<"0">>) \o NL \o NL}

\* arguments no object is named by: too short, not hex only, well-formed and unknown
OtherDigests ==
    {<<"0">>, SubSeq(Hex(0, hexlen), 1, hexlen - 1) \o NL, Hex(1, hexlen)}

NextLoad ==
    \/ \E f \in LoadNames, data \in LoadData : HandCreate(f, data)
    \/ \E hexdigest \in DigestsIn(storage) \cup OtherDigests : LoadCall(hexdigest)
    \/ LoadNext

SpecLoad == Init /\ [][NextLoad]_vars

(***************************************************************************)
(* A folder with stored streams and files made by hand, and gc.            *)
(***************************************************************************)
\* '073c-425f-b797-d2d2be42d263.tmp', the file the self-test makes (line 327)
TestTmpName ==
    <<"0","7","3","c","-","4","2","5","f","-","b","7","9","7","-",
      "d","2","d","2","b","e","4","2","d","2","6","3">> \o TMP

\* 'f83f48d0-073c-425f-b797-d2d2be42d263.tmp', the file the self-test looks for (line 330)
TestUuidName == <<"f","8","3","f","4","8","d","0","-">> \o TestTmpName

\* a uuid, '.tmp' and a newline: not a temporary name, and a name both the
\* pattern of line 158 and FileStorage._path let through
NewlineTmpName == Uuid4(2) \o TMP \o NL

GcNames ==
    {TestTmpName, TestUuidName, Uuid4(1) \o TMP, NewlineTmpName,
     <<"r","e","a","d","m","e">>, Hex(1, hexlen) \o CAT}

NextGc ==
    \/ \E data \in Inputs : tampered = {} /\ nstores < MaxRuns /\ Store(1, data)
    \/ \E f \in GcNames : HandCreate(f, <<>>)
    \/ \E hexdigests \in GcArgs : Gc(hexdigests)

SpecGc == Init /\ [][NextGc]_vars

(***************************************************************************)
(* A folder filled by hand, with blocks and catalogs right and wrong, and  *)
(* check() over it.                                                        *)
(***************************************************************************)
CheckNames == LoadNames \cup {Digest(<<>>) \o BIN}

NextCheck ==
    \/ \E f \in CheckNames, data \in LoadData : HandCreate(f, data)
    \/ Check

SpecCheck == Init /\ [][NextCheck]_vars

(***************************************************************************)
(* Stores into an empty folder, then files made by hand under names that   *)
(* are neither block nor catalog names, then check().                      *)
(***************************************************************************)
\* hexlen - 1 hex characters, '.bin' and a newline: not a block name, and a
\* name FileStorage._path lets through
NewlineName == SubSeq(Hex(0, hexlen), 1, hexlen - 1) \o BIN \o NL

OtherNames == {Uuid4(1) \o TMP, TestTmpName, <<"r","e","a","d","m","e">>, NewlineName}

NextAccept ==
    \/ \E data \in Inputs : tampered = {} /\ Store(1, data)
    \/ \E f \in OtherNames : HandCreate(f, <<>>)
    \/ Check

SpecAccept == Init /\ [][NextAccept]_vars

(***************************************************************************)
(* Two stores of one Scs configuration side by side, step by step.         *)
(***************************************************************************)
\* what the second process stores: the same stream as the first, or one of
\* two short ones that share blocks with many
RaceInputs == {st[1].data, <<"0">>, <<"0", "1">>}

NextRace ==
    \/ \E data \in Inputs : StoreBegin(1, blocksize, data)
    \/ \E data \in RaceInputs : st[1].pc # "idle" /\ StoreBegin(2, blocksize, data)
    \/ \E p \in Procs : StoreAdvance(p)

SpecRace == Init /\ [][NextRace]_vars

(***************************************************************************)
(* One store and one gc(None) side by side, step by step.                  *)
(***************************************************************************)
NextGcRace ==
    \/ \E data \in Inputs : StoreBegin(1, blocksize, data)
    \/ StoreAdvance(1)
    \/ GcCall("None")
    \/ GcStep

SpecGcRace == Init /\ [][NextGcRace]_vars

(***************************************************************************)
(* Stores and gc(None) over one folder: a store step by step that may be   *)
(* cut short, a second store that runs while the first is under way or     *)
(* after it, and gc step by step beside them.                              *)
(***************************************************************************)
NextCommit ==
    \/ \E data \in Inputs : StoreBegin(1, blocksize, data)
    \/ StoreAdvance(1)
    \/ Crash(1)
    \/ CrashInCreate(1)
    \/ \E data \in {st[1].data, <<"0">>} :
          st[1].pc # "idle" /\ StoreThrough(2, blocksize, data)
    \/ GcCall("None")
    \/ GcStep

SpecCommit == Init /\ [][NextCommit]_vars

(***************************************************************************)
(* Runs of the program over one folder, each with the block size of its    *)
(* own command line (lines 374-389).                                       *)
(***************************************************************************)
BlockSizes == 1..MaxBlockSize

NextSizes ==
    \/ \E bs \in BlockSizes, data \in Inputs : StoreBegin(1, bs, data)
    \/ StoreAdvance(1)
    \/ Crash(1)
    \/ \E bs \in BlockSizes, data \in RaceInputs :
          st[1].pc # "idle" /\ StoreThrough(2, bs, data)

SpecSizes == Init /\ [][NextSizes]_vars

(***************************************************************************)
(* Vocabulary of the properties.                                           *)
(***************************************************************************)
\* the blocks [B0, B1, ...] of a stream: consecutive pieces of bs bytes, the last shorter
RECURSIVE Chunks(_, _)
Chunks(data, bs) ==
    IF Len(data) = 0 THEN <<>>
    ELSE IF Len(data) <= bs THEN <<data>>
    ELSE <<SubSeq(data, 1, bs)>> \o Chunks(SubSeq(data, bs + 1, Len(data)), bs)

\* digest(B0) + "\n", digest(B1) + "\n", ...
RECURSIVE CatalogOf(_)
CatalogOf(blocks) ==
    IF blocks = <<>> THEN <<>>
    ELSE Digest(Head(blocks)) \o NL \o CatalogOf(Tail(blocks))

Drained(g) == g.pc \in {"finished", "raised"}

HasFile(stor, filename, content) == filename \in DOMAIN stor /\ stor[filename] = content

(***************************************************************************)
(* C1  Round trip: after completed stores of one Scs instance into an      *)
(* empty folder, a drained load of the digest any of them returned raises  *)
(* nothing and its chunks, concatenated, are the bytes that were stored.   *)
(***************************************************************************)
C1_RoundTrip ==
    Drained(ld) =>
        \A r \in done :
            r.ret = ld.hexdigest =>
                /\ ld.pc = "finished"
                /\ ld.err = "none"
                /\ Concat(ld.out) = r.data

\* a stream across a block boundary, stored after another one, has been loaded
C1_Witness ==
    /\ ld.pc = "finished"
    /\ Cardinality(done) = 2
    /\ \E r \in done :
          /\ r.ret = ld.hexdigest
          /\ Len(r.data) = 3
          /\ Len(ld.out) = 2
          /\ Concat(ld.out) = r.data

\* what the single-block rule says of a returned store call s
SingleBlockRule(s) ==
    /\ s.created \cup s.skipped = {Digest(s.data) \o BIN}
    /\ HasFile(storage, Digest(s.data) \o BIN, s.data)
    /\ s.hexdigest_total = Digest(s.data)

(***************************************************************************)
(* C5  Single-block rule, as claimed: every input of length <= blocksize   *)
(* makes store create no catalog; the one object it creates or finds is    *)
(* the block named by the digest of the input, which is what it returns.   *)
(***************************************************************************)
C5_AsClaimed ==
    \A p \in Procs :
        (st[p].pc = "returned" /\ Len(st[p].data) <= st[p].blocksize)
            => SingleBlockRule(st[p])

(***************************************************************************)
(* C5  amended: the rule holds for every non-empty input of length         *)
(* <= blocksize (the empty input makes a catalog).                         *)
(***************************************************************************)
C5_SingleBlock ==
    \A p \in Procs :
        (/\ st[p].pc = "returned"
         /\ Len(st[p].data) > 0
         /\ Len(st[p].data) <= st[p].blocksize)
            => SingleBlockRule(st[p])

\* an input of exactly blocksize bytes was stored and its block created
C5_Witness ==
    /\ st[1].pc = "returned"
    /\ st[1].blocksize = 2
    /\ Len(st[1].data) = 2
    /\ st[1].created = {Digest(st[1].data) \o BIN}

(***************************************************************************)
(* C6  Catalog correctness: when store returns for an input of zero or at  *)
(* least two blocks B0, B1, ..., the folder holds digest(B0||B1||...).cat  *)
(* with content digest(B0)\n digest(B1)\n ... in input order, and          *)
(* digest(Bi).bin with content Bi for every i; for the empty input the     *)
(* catalog is empty and store touches no block object.                     *)
(***************************************************************************)
C6_Catalog ==
    \A p \in Procs :
        LET s == st[p]
            blocks == Chunks(s.data, s.blocksize)
        IN  (s.pc = "returned" /\ Len(blocks) # 1) =>
                /\ HasFile(storage, Digest(s.data) \o CAT, CatalogOf(blocks))
                /\ \A i \in 1..Len(blocks) :
                      HasFile(storage, Digest(blocks[i]) \o BIN, blocks[i])
                /\ s.hexdigest_total = Digest(s.data)
                /\ (s.data = <<>> =>
                      /\ storage[Digest(<<>>) \o CAT] = <<>>
                      /\ \A f \in s.created \cup s.skipped : Slice(f, hexlen, Len(f)) # BIN)

\* a stream of three blocks of which two differ has been stored and its catalog created
C6_Witness ==
    LET s == st[1]
        blocks == Chunks(s.data, s.blocksize)
    IN  /\ s.pc = "returned"
        /\ Len(blocks) = 3
        /\ blocks[1] # blocks[2]
        /\ (Digest(s.data) \o CAT) \in s.created

(***************************************************************************)
(* C7  Idempotent store: a store of bytes that a completed store has       *)
(* stored before returns the digest returned then and leaves the folder    *)
(* as it was when it was called: same names, same contents; it stages no   *)
(* temporary object and creates none.                                      *)
(***************************************************************************)
C7_Idempotent ==
    \A p \in Procs :
        LET s == st[p] IN
        s.pc = "returned" =>
            \A r \in entry[p].done :
                r.data = s.data =>
                    /\ s.hexdigest_total = r.ret
                    /\ storage = entry[p].storage
                    /\ s.created = {}
                    /\ s.staged = {}
                    /\ uuids = entry[p].uuids

\* a multi-block stream has been stored a second time
C7_Witness ==
    /\ st[1].pc = "returned"
    /\ Len(st[1].data) = 3
    /\ \E r \in entry[1].done : r.data = st[1].data
    /\ Cardinality(st[1].skipped) >= 3
    /\ storage = entry[1].storage

\* the records of a catalog, when it consists of whole records
Records(content) ==
    [i \in 1..(Len(content) \div (hexlen + 1)) |->
        SubSeq(content, (i - 1) * (hexlen + 1) + 1, i * (hexlen + 1))]

WholeCatalog(stor, content, d) ==
    LET recs == Records(content)
        name(i) == SubSeq(recs[i], 1, hexlen) \o BIN
    IN  /\ Len(content) % (hexlen + 1) = 0
        /\ \A i \in 1..Len(recs) :
              /\ recs[i][hexlen + 1] = "\n"
              /\ AllIn(SubSeq(recs[i], 1, hexlen), HexChars)
              /\ name(i) \in DOMAIN stor
        /\ Digest(Concat([i \in 1..Len(recs) |-> stor[name(i)]])) = d

(***************************************************************************)
(* C4  Crash-atomic commit: whatever stores have run, completed or cut     *)
(* short between or inside backend calls, every d.bin holds bytes whose    *)
(* digest is d and every d.cat holds a whole catalog of a stream whose     *)
(* total digest is d: records of one digest and a newline each, every      *)
(* listed block present, the blocks in listed order hashing to d.  A       *)
(* partly written object is only found under a .tmp name.                  *)
(***************************************************************************)
C4_CrashAtomic ==
    \A f \in DOMAIN storage :
        IsDataFile(f) =>
            LET d == SubSeq(f, 1, hexlen)
            IN  IF SubSeq(f, hexlen + 1, Len(f)) = BIN
                THEN Digest(storage[f]) = d
                ELSE WholeCatalog(storage, storage[f], d)

\* a store died while writing its catalog: the temporary object holds a part
\* of it, the blocks are committed and no catalog is
C4_Witness ==
    /\ st[1].pc = "crashed"
    /\ st[1].filename_tmp \in DOMAIN storage
    /\ Len(storage[st[1].filename_tmp]) > 0
    /\ Len(storage[st[1].filename_tmp]) < Len(st[1].cat)
    /\ st[1].filename = Digest(st[1].data) \o CAT
    /\ st[1].filename \notin DOMAIN storage
    /\ \E f \in DOMAIN storage : IsDataFile(f)

\* a digest of the right length in lowercase hex
WellFormed(d) == Len(d) = hexlen /\ AllIn(d, HexChars)

\* the block files a catalog's content names, in order
Listed(content) ==
    [i \in 1..((Len(content) + hexlen) \div (hexlen + 1)) |->
        Slice(content, (i - 1) * (hexlen + 1), (i - 1) * (hexlen + 1) + hexlen) \o BIN]

\* the objects d resolves to are there to be read
Readable(stor, d) ==
    \/ (d \o BIN) \in DOMAIN stor
    \/ /\ (d \o CAT) \in DOMAIN stor
       /\ LET names == Listed(stor[d \o CAT])
          IN  \A i \in 1..Len(names) :
                  /\ AllIn(names[i], DigitChars \cup LowerChars \cup {".", "-"})
                  /\ names[i] \in DOMAIN stor

\* the bytes d resolves to
BytesOf(stor, d) ==
    IF (d \o BIN) \in DOMAIN stor THEN stor[d \o BIN]
    ELSE LET names == Listed(stor[d \o CAT])
         IN  Concat([i \in 1..Len(names) |-> stor[names[i]]])

(***************************************************************************)
(* C2  Verified read: whatever the folder holds, a drained load of a       *)
(* well-formed digest d that ends without error has produced chunks that   *)
(* hash to d; it ends with the checksum error when the objects could be    *)
(* read and their bytes hash to something else, and with another error     *)
(* when they could not be read.                                            *)
(***************************************************************************)
C2_VerifiedRead ==
    (Drained(ld) /\ WellFormed(ld.hexdigest)) =>
        /\ ld.pc = "finished" =>
              /\ ld.err = "none"
              /\ Digest(Concat(ld.out)) = ld.hexdigest
        /\ ld.pc = "raised" => ld.err # "none"
        /\ Readable(storage, ld.hexdigest) =>
              IF Digest(BytesOf(storage, ld.hexdigest)) = ld.hexdigest
              THEN ld.pc = "finished" /\ Concat(ld.out) = BytesOf(storage, ld.hexdigest)
              ELSE ld.pc = "raised" /\ ld.err = "Wrong checksum"
        /\ ~Readable(storage, ld.hexdigest) =>
              ld.pc = "raised" /\ ld.err \in {"Unknown digest", "IOError", "AssertionError"}

\* a hand-made catalog and its two hand-made blocks have been loaded to the end
C2_Witness ==
    /\ ld.pc = "finished"
    /\ (ld.hexdigest \o CAT) \in tampered
    /\ Len(ld.out) = 2
    /\ Digest(Concat(ld.out)) = ld.hexdigest

\* the bytes d resolves to include those of the block file x
DependsOn(stor, d, x) ==
    \/ d \o BIN = x
    \/ /\ (d \o BIN) \notin DOMAIN stor
       /\ (d \o CAT) \in DOMAIN stor
       /\ \E i \in 1..Len(Listed(stor[d \o CAT])) : Listed(stor[d \o CAT])[i] = x

(***************************************************************************)
(* C3  Corruption detection: after completed stores, with the bytes of     *)
(* one block file X.bin replaced by other bytes, (1) a drained load(d)     *)
(* ends with the checksum error for d = X and for every catalog d that     *)
(* lists X, and (2) check() ends with the checksum error, in whatever      *)
(* order it visits the names.                                              *)
(***************************************************************************)
C3_Corruption ==
    /\ Drained(ld) =>
          \A x \in tampered :
              DependsOn(storage, ld.hexdigest, x) =>
                  ld.pc = "raised" /\ ld.err = "Wrong checksum"
    /\ (ck.pc = "done" /\ tampered # {}) => ck.err = "Wrong checksum"

\* a block of a stored multi-block stream was overwritten, the load of the
\* stream read every block and failed, and so did check
C3_Witness ==
    /\ \E x \in tampered :
          /\ x # ld.hexdigest \o BIN
          /\ DependsOn(storage, ld.hexdigest, x)
    /\ \E r \in done : r.ret = ld.hexdigest /\ Len(r.data) = 3
    /\ ld.pc = "raised"
    /\ Len(ld.out) >= 2
    /\ ck.pc = "done"
    /\ ck.err = "Wrong checksum"

\* the forms of names
DataForm(f) ==
    /\ Len(f) = hexlen + 4
    /\ AllIn(SubSeq(f, 1, hexlen), HexChars)
    /\ SubSeq(f, hexlen + 1, hexlen + 4) \in {BIN, CAT}

TmpSuffix(f) == Len(f) >= 4 /\ SubSeq(f, Len(f) - 3, Len(f)) = TMP

UuidTmpForm(f) ==
    /\ Len(f) = 40
    /\ \A i \in 1..36 : IF i \in {9, 14, 19, 24} THEN f[i] = "-" ELSE f[i] \in HexChars
    /\ TmpSuffix(f)

(***************************************************************************)
(* C8  GC safety: after gc(None), whatever the folder held, every file     *)
(* with a block or catalog name (hexlen hex characters, then .bin or .cat) *)
(* is there with its content, and so is every file whose name is neither   *)
(* of that form nor ends in .tmp; nothing is added or rewritten; what is   *)
(* missing is what gc removed, and those are names of the form             *)
(* <uuid>.tmp.  Besides listing the names once, the only backend call gc   *)
(* makes is remove, on such names.                                         *)
(***************************************************************************)
C8_GcSafety ==
    (gc.pc = "returned" /\ gc.hexdigests = "None") =>
        /\ \A f \in DOMAIN gc.before :
              (DataForm(f) \/ ~TmpSuffix(f)) => HasFile(storage, f, gc.before[f])
        /\ \A f \in DOMAIN storage : HasFile(gc.before, f, storage[f])
        /\ DOMAIN gc.before \ DOMAIN storage = gc.removed
        /\ \A f \in gc.removed : UuidTmpForm(f)
        /\ \A c \in gc.calls \ {<<"filenames">>} :
              c[1] = "remove" /\ UuidTmpForm(c[2]) /\ c[2] \in DOMAIN gc.before

\* gc(None) ran over stored objects, a file of unknown name and a temporary
\* object, and removed the temporary object
C8_Witness ==
    /\ gc.pc = "returned"
    /\ gc.hexdigests = "None"
    /\ gc.removed # {}
    /\ done # {}
    /\ \E f \in DOMAIN storage : DataForm(f)
    /\ \E f \in DOMAIN storage : ~DataForm(f) /\ ~TmpSuffix(f)

(***************************************************************************)
(* C9  GC removes temporary objects, as claimed: every file named          *)
(* <id>.tmp that is in the folder when gc(None) starts, the one the        *)
(* self-test makes included, is gone when gc returns.                      *)
(***************************************************************************)
C9_AsClaimed ==
    (gc.pc = "returned" /\ gc.hexdigests = "None") =>
        \A f \in DOMAIN gc.before :
            (TmpSuffix(f) /\ ~DataForm(f)) => f \notin DOMAIN storage

Redundant(stor) ==
    {d \in DigestsIn(stor) : (d \o BIN) \in DOMAIN stor /\ (d \o CAT) \in DOMAIN stor}

\* the objects d resolves to can be read and their bytes hash to d
Verifies(stor, d) == Readable(stor, d) /\ Digest(BytesOf(stor, d)) = d

(***************************************************************************)
(* C11  Redundancy detection, as claimed: when the folder holds both       *)
(* d.bin and d.cat for some d, check() ends with the redundancy error,     *)
(* whatever the two files hold and in whatever order the names come.       *)
(***************************************************************************)
C11_AsClaimed ==
    (ck.pc = "done" /\ Redundant(storage) # {}) => ck.err = "Redundant"

(***************************************************************************)
(* C11  amended: when the folder holds both d.bin and d.cat for some d,    *)
(* check() ends with an error in whatever order the names come: with the   *)
(* redundancy error when every block and catalog of the folder verifies,   *)
(* and otherwise with that error or the load error of an object that does  *)
(* not verify, whichever the loop reaches first.                           *)
(***************************************************************************)
C11_Redundancy ==
    (ck.pc = "done" /\ Redundant(storage) # {}) =>
        /\ ck.err # "none"
        /\ ck.err # "Redundant" => \E d \in DigestsIn(storage) : ~Verifies(storage, d)

\* check() met a catalog next to a block of the same digest whose bytes are
\* right, and ended with the redundancy error
C11_Witness ==
    /\ ck.pc = "done"
    /\ ck.err = "Redundant"
    /\ \E d \in Redundant(storage) : Digest(storage[d \o BIN]) = d

(***************************************************************************)
(* C12  check() accepts every store-built folder, as claimed: after        *)
(* completed stores into an empty folder, with files added under           *)
(* temporary names and names that are neither block nor catalog names,     *)
(* check() returns without error.                                          *)
(***************************************************************************)
C12_AsClaimed ==
    (ck.pc = "done" /\ \A f \in tampered : ~DataForm(f)) => ck.err = "none"

(***************************************************************************)
(* C13  load error kinds, as claimed: a drained load(d) of a d that is not *)
(* hexlen lowercase hex characters ends with the invalid-digest error,     *)
(* with no chunk produced and no backend call made; of a well-formed d     *)
(* that names neither a block nor a catalog, with the unknown-digest       *)
(* error and no chunk produced.                                            *)
(***************************************************************************)
C13_AsClaimed ==
    Drained(ld) =>
        /\ ~WellFormed(ld.hexdigest) =>
              /\ ld.pc = "raised"
              /\ ld.err = "Invalid digest"
              /\ ld.out = <<>>
              /\ ld.calls = 0
        /\ (/\ WellFormed(ld.hexdigest)
            /\ (ld.hexdigest \o BIN) \notin DOMAIN storage
            /\ (ld.hexdigest \o CAT) \notin DOMAIN storage) =>
              /\ ld.pc = "raised"
              /\ ld.err = "Unknown digest"
              /\ ld.out = <<>>

StoredAlone(bs, data) == StoreRun(StoreEnter(bs, data), EmptyStorage, 0).stor

(***************************************************************************)
(* C15  Concurrent writers of identical content: in every interleaving of  *)
(* the backend calls of two stores of the same bytes, neither store        *)
(* fails, the temporary names of the one are not those of the other, and   *)
(* once both have ended both have returned the same digest, the folder is  *)
(* the one a single store of these bytes produces, and no temporary        *)
(* object is left.                                                         *)
(***************************************************************************)
C15_RaceFree ==
    (st[1].pc # "idle" /\ st[2].pc # "idle" /\ st[1].data = st[2].data) =>
        /\ \A p \in Procs : st[p].pc # "failed"
        /\ st[1].staged \cap st[2].staged = {}
        /\ (\A p \in Procs : ~StoreRunning(st[p])) =>
              /\ \A p \in Procs : st[p].pc = "returned"
              /\ st[1].hexdigest_total = st[2].hexdigest_total
              /\ st[1].hexdigest_total = Digest(st[1].data)
              /\ storage = StoredAlone(blocksize, st[1].data)
              /\ \A f \in DOMAIN storage : ~TmpSuffix(f)

\* two stores of one stream of several blocks have returned; both staged
\* temporary objects and both renamed them
C15_Witness ==
    /\ \A p \in Procs : st[p].pc = "returned"
    /\ st[1].data = st[2].data
    /\ Len(st[1].data) > blocksize
    /\ \A p \in Procs : Cardinality(st[p].staged) >= 2 /\ st[p].created # {}

\* the chunks d resolves to: the block, or the blocks its catalog lists, in order
ChunksOf(stor, d) ==
    IF (d \o BIN) \in DOMAIN stor THEN <<stor[d \o BIN]>>
    ELSE LET names == Listed(stor[d \o CAT])
         IN  [i \in 1..Len(names) |-> stor[names[i]]]

(***************************************************************************)
(* C16  Verification happens only at the end of the read: when the         *)
(* objects d resolves to can be read and their bytes do not hash to d,     *)
(* load(d) yields every chunk, in order, and no next() raises before all   *)
(* of them have been yielded; the next() after the last chunk raises the   *)
(* checksum error.  A consumer that stops earlier has seen no error.       *)
(***************************************************************************)
C16_VerifiedAtEnd ==
    (/\ ld.pc # "idle"
     /\ WellFormed(ld.hexdigest)
     /\ Readable(storage, ld.hexdigest)
     /\ Digest(BytesOf(storage, ld.hexdigest)) # ld.hexdigest) =>
        LET chunks == ChunksOf(storage, ld.hexdigest)
        IN  /\ ld.pc # "finished"
            /\ Len(ld.out) <= Len(chunks)
            /\ ld.out = SubSeq(chunks, 1, Len(ld.out))
            /\ ld.pc = "raised" => (ld.err = "Wrong checksum" /\ ld.out = chunks)
            /\ ld.pc # "raised" => ld.err = "none"

\* a catalog whose two blocks do not hash to its name: both blocks have been
\* yielded and nothing has been raised yet
C16_Witness ==
    /\ ld.pc = "cat"
    /\ WellFormed(ld.hexdigest)
    /\ Readable(storage, ld.hexdigest)
    /\ Digest(BytesOf(storage, ld.hexdigest)) # ld.hexdigest
    /\ Len(ld.out) = 2
    /\ ld.out = ChunksOf(storage, ld.hexdigest)
    /\ ld.err = "none"

(***************************************************************************)
(* C17  gc/store race: when gc(None), running beside a store, removes the  *)
(* temporary object the store has created and not yet renamed, the         *)
(* store's rename finds no source and the store fails, and it fails for    *)
(* no other reason; no block or catalog that gc found or that the store    *)
(* has committed is removed or changed.                                    *)
(***************************************************************************)
C17_GcStoreRace ==
    /\ st[1].filename_tmp \in gc.removed =>
          /\ st[1].pc \in {"rename", "rename_total", "failed"}
          /\ st[1].filename \notin st[1].created
    /\ st[1].pc = "failed" =>
          /\ st[1].filename_tmp \in gc.removed
          /\ st[1].filename_tmp \notin DOMAIN storage
    /\ \A f \in DOMAIN gc.before : DataForm(f) => HasFile(storage, f, gc.before[f])
    /\ \A f \in st[1].created :
          /\ f \in DOMAIN storage
          /\ SubSeq(f, hexlen + 1, Len(f)) = BIN => Digest(storage[f]) = SubSeq(f, 1, hexlen)

\* the store had committed a block when gc took the names; gc removed the
\* temporary object of the next one and returned, and the store's rename failed
C17_Witness ==
    /\ st[1].pc = "failed"
    /\ gc.pc = "returned"
    /\ st[1].filename_tmp \in gc.removed
    /\ st[1].created # {}
    /\ st[1].created \subseteq DOMAIN gc.before
    /\ st[1].created \subseteq DOMAIN storage

(***************************************************************************)
(* C18  Invariant I1 is kept by store, as claimed: whatever stores have    *)
(* run into an empty folder, completed, cut short or side by side, each    *)
(* with a block size of its own, no digest names both a block and a        *)
(* catalog.                                                                *)
(***************************************************************************)
C18_AsClaimed == Redundant(storage) = {}

\* the catalogs of the folder
CatFiles(stor) == {f \in DOMAIN stor : DataForm(f) /\ SubSeq(f, hexlen + 1, Len(f)) = CAT}

(***************************************************************************)
(* C19  Blocks are committed before the catalog that lists them: whatever  *)
(* stores (completed, cut short, overlapping) and gc(None) steps have run  *)
(* from an empty folder, for every d.cat in the folder each block it       *)
(* lists is there as a .bin file and the blocks in listed order hash to    *)
(* d; a drained load(d) finds every block and ends without error.          *)
(***************************************************************************)
C19_BlocksFirst ==
    \A f \in CatFiles(storage) :
        LET d == SubSeq(f, 1, hexlen)
            names == Listed(storage[f])
        IN  /\ \A i \in 1..Len(names) : names[i] \in DOMAIN storage
            /\ Digest(Concat([i \in 1..Len(names) |-> storage[names[i]]])) = d
            /\ LoadDrain(LoadEnter(d), storage).pc = "finished"

\* a store was cut short after its blocks, gc removed a temporary object, and
\* the catalog another store of the same bytes committed lists blocks that are there
C19_Witness ==
    /\ st[1].pc = "crashed"
    /\ st[1].created # {}
    /\ gc.pc = "returned"
    /\ gc.removed # {}
    /\ st[2].pc = "returned"
    /\ st[2].data = st[1].data
    /\ (Digest(st[2].data) \o CAT) \in DOMAIN storage
    /\ Len(Listed(storage[Digest(st[2].data) \o CAT])) >= 2

(***************************************************************************)
(* C20  End of input, as claimed: store stops reading at the first read    *)
(* that returns fewer bytes than the block size, or none; no read follows  *)
(* such a read.                                                            *)
(***************************************************************************)
C20_AsClaimed ==
    \A p \in Procs :
        st[p].pc = "returned" =>
            \A i \in 1..Len(st[p].reads) :
                st[p].reads[i] < st[p].blocksize => i = Len(st[p].reads)

(***************************************************************************)
(* C20  amended: store stops reading at the first read that returns no     *)
(* bytes, and only there: every read before it returned a block, the       *)
(* bytes read are the whole input, and a short read is followed by one     *)
(* more read, the empty one, so that its block is the last of the stream.  *)
(***************************************************************************)
C20_EndOfInput ==
    \A p \in Procs :
        st[p].pc = "returned" =>
            LET reads == st[p].reads
                n == Len(reads)
            IN  /\ n >= 1
                /\ reads[n] = 0
                /\ \A i \in 1..(n - 1) : reads[i] > 0
                /\ \A i \in 1..(n - 1) : reads[i] < st[p].blocksize => i = n - 1
                /\ Len(st[p].cat) = (n - 1) * (hexlen + 1)
                /\ st[p].hexdigest_total = Digest(st[p].data)

\* a stream of a full block and a short one has been stored: three reads, the
\* second short, the third empty
C20_Witness ==
    /\ st[1].pc = "returned"
    /\ Len(st[1].reads) = 3
    /\ st[1].reads[1] = st[1].blocksize
    /\ st[1].reads[2] > 0
    /\ st[1].reads[2] < st[1].blocksize
    /\ st[1].reads[3] = 0

====
